---- MODULE Spec2Model ----
(***************************************************************************)
(* Model of src/app.py: the LLaMA text generation service.                 *)
(*                                                                         *)
(* LlamaModelManager resolves an executable and a model file at            *)
(* construction, and generate() runs the executable as a child process     *)
(* under model_lock with a timeout.  The Flask route generate_text parses  *)
(* a JSON body, calls generate() and maps the GenerationResponse to an     *)
(* HTTP status.  Request threads (Flask runs threaded=True) interleave.    *)
(*                                                                         *)
(* Numbers: floats are kept in tenths (0.1 is 1, 2.0 is 20) in a record    *)
(* that also carries the IEEE not-a-number; time is counted in minutes     *)
(* (the timeout of 180 s is 3).  Strings are sequences of characters.      *)
(***************************************************************************)
EXTENDS Integers, Sequences, FiniteSets, TLC

VARIABLES
    disk,            \* the filesystem and environment the manager was built from
    startup,         \* the exception that left the construction ("none" if none)
    llama_path,      \* LlamaModelManager.llama_path   (NoPath when None)
    model_path,      \* LlamaModelManager.model_path   (NoPath when None)
    is_initialized,  \* LlamaModelManager.is_initialized
    model_lock,      \* threading.Lock: 0 when free, else the holding thread
    pc,              \* position of each request thread
    via,             \* how the thread entered: "http" route or "direct" call
    data,            \* the JSON body the route got from request.get_json()
    arg,             \* the GenerationRequest as it was passed to generate()
    gen_request,     \* that GenerationRequest object, validated in place
    command,         \* the argument vector handed to subprocess.run
    child,           \* the thread's child process: none, running, exited, killed
    process,         \* the CompletedProcess subprocess.run returned to the thread
    age,             \* minutes the thread's running child has been running
    elapsed,         \* minutes since the thread took start_time
    took_lock,       \* whether the thread's current call entered model_lock
    response,        \* the GenerationResponse generate() returned
    http             \* the HTTP answer of the route

vars == << disk, startup, llama_path, model_path, is_initialized, model_lock, pc, via,
           data, arg, gen_request, command, child, process, age, elapsed, took_lock,
           response, http >>

----------------------------------------------------------------------------
(* Bounds of the model *)

NumThreads == 2      \* concurrent request threads
Margin == 1          \* how far numeric inputs reach outside each interval
MaxLen == 2          \* longest prompt and longest process output
MaxElapsed == 1      \* elapsed saturates here (minutes)
MaxExit == 1         \* exit statuses 0..MaxExit

Threads == 1 .. NumThreads

(* Program constants *)

MinTokens == 1            \* max(1, ...)
MaxTokens == 4096         \* min(request.max_tokens, 4096)
MinTemperature == 1       \* 0.1
MaxTemperature == 20      \* 2.0
MinTopP == 1              \* 0.1
MaxTopP == 10             \* 1.0
MinRepeatPenalty == 1     \* 0.1
MaxRepeatPenalty == 20    \* 2.0
DefaultMaxTokens == 512
DefaultTemperature == 8   \* 0.8
DefaultTopP == 9          \* 0.9
DefaultRepeatPenalty == 11 \* 1.1
TimeoutMinutes == 3       \* timeout=180

\* The temperature 5.0 of the documented scenario, an input of the model.
ExampleTemperature == 50

----------------------------------------------------------------------------
(* Python values *)

NoPath == "None"

\* A float: nan is the IEEE not-a-number, v the value in tenths.
Flt(x) == [nan |-> FALSE, v |-> x]
NaN == [nan |-> TRUE, v |-> 0]

\* a < b on floats: every comparison with not-a-number is false.
FltLess(a, b) == ~a.nan /\ ~b.nan /\ a.v < b.v

\* The builtin min(a, b) and max(a, b): the first argument is kept unless the
\* second is strictly smaller (larger).
PyMinFlt(a, b) == IF FltLess(b, a) THEN b ELSE a
PyMaxFlt(a, b) == IF FltLess(a, b) THEN b ELSE a
PyMinInt(a, b) == IF b < a THEN b ELSE a
PyMaxInt(a, b) == IF b > a THEN b ELSE a

(* Strings *)

Chars == {"a", "b", " "}
IsSpace(c) == c = " "

RECURSIVE LStrip(_)
LStrip(s) == IF s # << >> /\ IsSpace(Head(s)) THEN LStrip(Tail(s)) ELSE s

RECURSIVE RStrip(_)
RStrip(s) ==
    IF s # << >> /\ IsSpace(s[Len(s)]) THEN RStrip(SubSeq(s, 1, Len(s) - 1)) ELSE s

\* str.strip()
Strip(s) == RStrip(LStrip(s))

\* The positions where p occurs in s.
Occurrences(p, s) ==
    { i \in 1 .. (Len(s) - Len(p) + 1) : SubSeq(s, i, i + Len(p) - 1) = p }

\* p in s
Contains(p, s) == Occurrences(p, s) # {}

\* s.replace(p, "", 1): the leftmost occurrence of p is removed.
ReplaceFirst(s, p) ==
    IF p = << >> \/ ~Contains(p, s) THEN s
    ELSE LET i == CHOOSE k \in Occurrences(p, s) : \A j \in Occurrences(p, s) : k <= j
         IN SubSeq(s, 1, i - 1) \o SubSeq(s, i + Len(p), Len(s))

\* len(s.split()): the number of whitespace-separated words.
WordCount(s) ==
    Cardinality({ i \in 1 .. Len(s) : ~IsSpace(s[i]) /\ (i = 1 \/ IsSpace(s[i - 1])) })

\* The members of a list.
Range(list) == { list[i] : i \in 1 .. Len(list) }

\* All strings of length at most n.
StringsUpTo(n) == UNION { [1 .. k -> Chars] : k \in 0 .. n }

----------------------------------------------------------------------------
(* Path resolution: LlamaModelManager.__init__ and _find_paths *)

possible_llama_paths ==
    << "/app/llama.cpp/build/bin/llama-cli", "/app/llama.cpp/build/bin/main",
       "/app/llama.cpp/llama-cli", "/app/llama.cpp/main",
       "./llama.cpp/build/bin/llama-cli", "./llama-cli" >>

\* The last candidate is os.environ.get("MODEL_PATH", ""): env is its value.
possible_model_paths(env) ==
    << "/app/models/model.gguf", "/app/models/tinyllama-1.1b-chat-v1.0.Q4_K_M.gguf",
       "./models/model.gguf", env >>

\* 1024 * 1024: a model file must be larger than this many bytes.
MinModelSize == 1024 * 1024

\* A filesystem snapshot fs and the environment at construction: exists, the
\* paths that exist; exec, the paths the process may execute; size, the size
\* in bytes of each path; env, the value of MODEL_PATH ("" when unset).
exists(fs, path) == path \in fs.exists
access(fs, path) == path \in fs.exists /\ path \in fs.exec

\* os.path.getsize raises OSError for a path that does not exist.
getsize(fs, path) ==
    IF path \in fs.exists THEN [exc |-> "none", val |-> fs.size[path]]
    ELSE [exc |-> "OSError", val |-> 0]

\* The condition of the executable loop for one candidate: "yes", "no", or
\* the exception it raises.
LlamaTest(fs, path) ==
    IF path = "" THEN "no"
    ELSE IF ~exists(fs, path) THEN "no"
    ELSE IF access(fs, path) THEN "yes" ELSE "no"

\* The model loop's condition with the size read before the existence test.
ModelTestSizeFirst(fs, path) ==
    IF path = "" THEN "no"
    ELSE IF getsize(fs, path).exc # "none" THEN getsize(fs, path).exc
    ELSE IF exists(fs, path) /\ getsize(fs, path).val > MinModelSize THEN "yes" ELSE "no"

\* The condition of the model loop for one candidate.
ModelTest(fs, path) ==
    IF path = "" THEN "no"
    ELSE IF ~exists(fs, path) THEN "no"
    ELSE IF getsize(fs, path).exc # "none" THEN getsize(fs, path).exc
    ELSE IF getsize(fs, path).val > MinModelSize THEN "yes" ELSE "no"

\* The for loop with break over candidates, test[path] being the loop's
\* condition for path: the first candidate whose test is "yes", None when
\* every test is "no"; exc when a test raises before that.
FirstQualifying(candidates, test) ==
    LET stops == { i \in 1 .. Len(candidates) : test[candidates[i]] # "no" }
        first == CHOOSE i \in stops : \A j \in stops : i <= j
    IN IF stops = {} THEN [exc |-> "none", path |-> NoPath]
       ELSE IF test[candidates[first]] = "yes"
         THEN [exc |-> "none", path |-> candidates[first]]
       ELSE [exc |-> test[candidates[first]], path |-> NoPath]

FindLlamaPath(fs) ==
    FirstQualifying(possible_llama_paths,
                    [path \in Range(possible_llama_paths) |-> LlamaTest(fs, path)])
FindModelPath(fs) ==
    FirstQualifying(possible_model_paths(fs.env),
                    [path \in Range(possible_model_paths(fs.env)) |-> ModelTest(fs, path)])

\* _find_paths as a whole: the three attributes it sets, and the exception
\* that leaves it, if any.
find_paths(fs) ==
    LET llama == FindLlamaPath(fs)
        model == FindModelPath(fs)
    IN [llama_path |-> llama.path,
        model_path |-> model.path,
        is_initialized |-> (llama.path # NoPath /\ model.path # NoPath),
        exc |-> IF llama.exc # "none" THEN llama.exc ELSE model.exc]

\* Snapshots
EnvPath == "/data/m.gguf"
LlamaFiles == Range(possible_llama_paths)
ModelFiles == Range(possible_model_paths(EnvPath))
Files == LlamaFiles \cup ModelFiles

\* The snapshot in which the paths of present exist, those of executable may
\* be executed, and the model files of large are one byte above the threshold
\* while the other files are exactly at it.
Snapshot(present, executable, large, env) ==
    [exists |-> present, exec |-> executable,
     size |-> [f \in Files |-> IF f \notin present THEN 0
                               ELSE IF f \in large THEN MinModelSize + 1
                               ELSE MinModelSize],
     env |-> env]

\* Snapshots the request specifications start from.
Snapshots ==
    { Snapshot({}, {}, {}, ""),
      Snapshot({"./llama-cli", "./models/model.gguf"}, {"./llama-cli"}, {}, ""),
      Snapshot({"/app/llama.cpp/main", "./llama-cli", "./models/model.gguf", EnvPath},
               {"/app/llama.cpp/main", "./llama-cli"},
               {"./models/model.gguf", EnvPath}, EnvPath) }

----------------------------------------------------------------------------
(* The dataclasses *)

GenerationRequest(p, n, t, tp, rp) ==
    [prompt |-> p, max_tokens |-> n, temperature |-> t, top_p |-> tp,
     repeat_penalty |-> rp]

NoRequest == GenerationRequest(<< >>, 0, Flt(0), Flt(0), Flt(0))

\* error: msg "None" is Python's None; code is the exit status an
\* execution-failed message names.
NoError == [msg |-> "None", code |-> 0]
Error(m, c) == [msg |-> m, code |-> c]

GenerationResponse(ok, txt, tokens, time, err) ==
    [success |-> ok, text |-> txt, tokens_generated |-> tokens,
     generation_time |-> time, error |-> err]

NoResponse == GenerationResponse(FALSE, << >>, 0, 0, Error("unset", 0))

NoCommand == [llama |-> NoPath, m |-> NoPath, p |-> << >>, n |-> 0,
              temp |-> Flt(0), top_p |-> Flt(0), repeat_penalty |-> Flt(0)]

\* The exit status of a child and the bytes it wrote to its two pipes; when
\* both decode, the fields of the subprocess.CompletedProcess.
CompletedProcess(returncode, stdout, stderr) ==
    [returncode |-> returncode, stdout |-> stdout, stderr |-> stderr]

\* text=True: subprocess.run decodes both captured streams strictly, and a
\* byte that is no valid text raises UnicodeDecodeError out of run().
BadByte == "xFF"
Decodes(bytes) == \A i \in 1 .. Len(bytes) : bytes[i] # BadByte

NoProcess == CompletedProcess(0, << >>, << >>)

\* The "status" and "checks" entries of the body of GET /health.
Checks(state, llama, model, init) ==
    [status |-> state, llama_executable |-> llama, model_file |-> model,
     initialization |-> init]

NoChecks == Checks("absent", FALSE, FALSE, FALSE)

\* by: "route" when the route function returned the answer, "errorhandler"
\* when an exception left the route and Flask's 500 handler answered.
\* success: "true", "false", or "absent" when the body has no such field.
HttpAnswer(st, ok, txt, err, who) ==
    [status |-> st, success |-> ok, text |-> txt, error |-> err, by |-> who,
     checks |-> NoChecks]

NoHttp == HttpAnswer(0, "absent", << >>, NoError, "none")

----------------------------------------------------------------------------
(* The JSON body of POST /generate and its conversion (generate_text) *)

\* A field of the body: absent, a JSON number, the JSON literal NaN, a string
\* that is no number, or null.
Absent == [k |-> "absent", v |-> 0]
Num(x) == [k |-> "num", v |-> x]
NanField == [k |-> "nan", v |-> 0]
TextField == [k |-> "text", v |-> 0]
NullField == [k |-> "null", v |-> 0]

\* The prompt field: absent, or a string.
NoPrompt == [k |-> "absent", s |-> << >>]
Prompt(str) == [k |-> "str", s |-> str]

Body(p, n, t, tp, rp) ==
    [prompt |-> p, max_tokens |-> n, temperature |-> t, top_p |-> tp,
     repeat_penalty |-> rp]

NoBody == Body(NoPrompt, Absent, Absent, Absent, Absent)

\* int(data.get(name, default)): exc is the exception raised, if any.
PyInt(field, default) ==
    CASE field.k = "absent" -> [exc |-> "none", val |-> default]
      [] field.k = "num"    -> [exc |-> "none", val |-> field.v]
      [] field.k = "nan"    -> [exc |-> "ValueError", val |-> 0]
      [] field.k = "text"   -> [exc |-> "ValueError", val |-> 0]
      [] field.k = "null"   -> [exc |-> "TypeError", val |-> 0]

\* float(data.get(name, default))
PyFloat(field, default) ==
    CASE field.k = "absent" -> [exc |-> "none", val |-> Flt(default)]
      [] field.k = "num"    -> [exc |-> "none", val |-> Flt(field.v)]
      [] field.k = "nan"    -> [exc |-> "none", val |-> NaN]
      [] field.k = "text"   -> [exc |-> "ValueError", val |-> Flt(0)]
      [] field.k = "null"   -> [exc |-> "TypeError", val |-> Flt(0)]

\* The GenerationRequest(...) constructor call of the route: the arguments are
\* evaluated in order and the first exception leaves the call.
BuildRequest(body) ==
    LET n  == PyInt(body.max_tokens, DefaultMaxTokens)
        t  == PyFloat(body.temperature, DefaultTemperature)
        tp == PyFloat(body.top_p, DefaultTopP)
        rp == PyFloat(body.repeat_penalty, DefaultRepeatPenalty)
        raised == SelectSeq(<< n.exc, t.exc, tp.exc, rp.exc >>, LAMBDA e : e # "none")
    IN [exc |-> IF raised = << >> THEN "none" ELSE Head(raised),
        req |-> GenerationRequest(Strip(body.prompt.s), n.val, t.val, tp.val, rp.val)]

\* jsonify({"success": false, ...}), status: the name false is bound nowhere
\* in the module, so evaluating the dict raises NameError before any answer is
\* built.  The value is the exception that leaves the statement.
ErrorReply(status, msg) == [exc |-> "NameError", answer |-> NoHttp]

\* An exception that leaves the route function: Flask answers through the
\* registered 500 handler, internal_error.
internal_error == HttpAnswer(500, "absent", << >>, Error("Internal server error", 0),
                             "errorhandler")

\* A route that answers 200 whatever generate() returned.
StatusAlwaysOk(resp) == 200

\* The status of the answer for a GenerationResponse.
StatusOf(resp) == IF ~resp.success THEN 500 ELSE 200

\* The route's answer after generate() returned.
FormatResponse(resp) ==
    IF ~resp.success
    THEN HttpAnswer(StatusOf(resp), "false", resp.text, resp.error, "route")
    ELSE HttpAnswer(StatusOf(resp), "true", resp.text, NoError, "route")

----------------------------------------------------------------------------
(* generate(): parameter validation, command, outcome classification *)

ClampTokens(x) == PyMaxInt(MinTokens, PyMinInt(x, MaxTokens))
\* The bounds applied in the other order, min(max(x, 0.1), 2.0): the same on
\* numbers, but a not-a-number passes through.
ClampTemperatureSwapped(x) ==
    PyMinFlt(PyMaxFlt(x, Flt(MinTemperature)), Flt(MaxTemperature))

ClampTemperature(x) == PyMaxFlt(Flt(MinTemperature), PyMinFlt(x, Flt(MaxTemperature)))
ClampTopP(x) == PyMaxFlt(Flt(MinTopP), PyMinFlt(x, Flt(MaxTopP)))
ClampRepeatPenalty(x) ==
    PyMaxFlt(Flt(MinRepeatPenalty), PyMinFlt(x, Flt(MaxRepeatPenalty)))

\* The four assignments that validate the request in place.
Validate(req) ==
    GenerationRequest(req.prompt, ClampTokens(req.max_tokens),
                      ClampTemperature(req.temperature), ClampTopP(req.top_p),
                      ClampRepeatPenalty(req.repeat_penalty))

\* The argument vector (the fixed flags are left out).
BuildCommand(llama, model, req) ==
    [llama |-> llama, m |-> model, p |-> req.prompt, n |-> req.max_tokens,
     temp |-> req.temperature, top_p |-> req.top_p,
     repeat_penalty |-> req.repeat_penalty]

\* output = process.stdout.strip(), then the prompt is removed once.
CleanOutput(prompt, stdout) ==
    LET output == Strip(stdout)
    IN IF Contains(prompt, output) THEN Strip(ReplaceFirst(output, prompt)) ELSE output

NotInitializedResponse ==
    GenerationResponse(FALSE, << >>, 0, 0, Error("Model not initialized", 0))

\* A classification without the test for an empty cleaned output.
ClassifyEmptyIsSuccess(prompt, returncode, stdout, time) ==
    IF returncode # 0
    THEN GenerationResponse(FALSE, << >>, 0, time,
                            Error("Model execution failed with code", returncode))
    ELSE LET output == CleanOutput(prompt, stdout)
         IN GenerationResponse(TRUE, output, WordCount(output), time, NoError)

\* A classification that hands back the output of a failed run.
ClassifyKeepsText(prompt, returncode, stdout, time) ==
    IF returncode # 0
    THEN GenerationResponse(FALSE, Strip(stdout), 0, time,
                            Error("Model execution failed with code", returncode))
    ELSE LET output == CleanOutput(prompt, stdout)
         IN IF output = << >>
            THEN GenerationResponse(FALSE, << >>, 0, time,
                                    Error("Model generated empty response", 0))
            ELSE GenerationResponse(TRUE, output, WordCount(output), time, NoError)

\* The response for a process that ended with returncode and stdout.
Classify(prompt, returncode, stdout, time) ==
    IF returncode # 0
    THEN GenerationResponse(FALSE, << >>, 0, time,
                            Error("Model execution failed with code", returncode))
    ELSE LET output == CleanOutput(prompt, stdout)
         IN IF output = << >>
            THEN GenerationResponse(FALSE, << >>, 0, time,
                                    Error("Model generated empty response", 0))
            ELSE GenerationResponse(TRUE, output, WordCount(output), time, NoError)

\* What generate() makes of the CompletedProcess proc: stderr is logged and
\* otherwise unused.
ProcessResult(prompt, proc, time) ==
    Classify(prompt, proc.returncode, proc.stdout, time)

TimeoutResponse(time) ==
    GenerationResponse(FALSE, << >>, 0, time,
                       Error("Generation timeout exceeded (3 minutes)", 0))

UnexpectedResponse(time) ==
    GenerationResponse(FALSE, << >>, 0, time, Error("Unexpected error", 0))

\* How subprocess.run ends for a child that exited with proc: it returns the
\* CompletedProcess, or raises while decoding either stream.
RunOutcome(proc) ==
    IF Decodes(proc.stdout) /\ Decodes(proc.stderr) THEN "return" ELSE "exception"

\* The response of generate() for a child that exited with proc.
RunResult(prompt, proc, time) ==
    IF RunOutcome(proc) = "return" THEN ProcessResult(prompt, proc, time)
    ELSE UnexpectedResponse(time)

\* No lock at all: every caller proceeds.
CanAcquireAlways(lock) == TRUE

\* threading.Lock.acquire() proceeds only when the lock is unlocked.
CanAcquire(lock) == lock = 0

\* acquire() and release() without try/finally: an exception skips release().
LockKeptOnException(lock, outcome) == IF outcome = "return" THEN 0 ELSE lock

\* Leaving the with block releases the lock, however the block is left
\* (outcome: "return", "timeout", "exception").
LockAfterWith(lock, outcome) == 0

\* A wait with a timeout that does not kill the child.
ChildLeftRunning == "running"

\* subprocess.run on a timeout: the child is killed and waited for before
\* TimeoutExpired is raised.
ChildAfterTimeout == "killed"

----------------------------------------------------------------------------
(* Inputs *)

IntInputs(lo, hi, d) == { lo - k : k \in 0 .. Margin } \cup { hi + k : k \in 0 .. Margin }
                            \cup {d}

NumFields(lo, hi, d) ==
    {Absent, NanField, TextField, NullField} \cup { Num(x) : x \in IntInputs(lo, hi, d) }

Prompts == {NoPrompt} \cup { Prompt(str) : str \in StringsUpTo(MaxLen) }

\* Bodies of the sequential specification: every prompt with default
\* parameters, and every combination of parameter fields with one prompt.
BodiesWide ==
    { Body(p, Absent, Absent, Absent, Absent) : p \in Prompts }
    \cup { Body(Prompt(<< "a" >>), n, t, tp, rp) :
             n \in NumFields(MinTokens, MaxTokens, DefaultMaxTokens),
             t \in NumFields(MinTemperature, MaxTemperature, DefaultTemperature)
                      \cup {Num(ExampleTemperature)},
             tp \in NumFields(MinTopP, MaxTopP, DefaultTopP),
             rp \in NumFields(MinRepeatPenalty, MaxRepeatPenalty, DefaultRepeatPenalty) }

\* Bodies of the concurrent specification.
BodiesSmall ==
    { Body(Prompt(<< " " >>), Absent, Absent, Absent, Absent),
      Body(Prompt(<< "a" >>), Absent, Absent, Absent, Absent) }

\* Requests of direct callers of generate().
RequestsWide ==
    { GenerationRequest(p, n, t, Flt(DefaultTopP), Flt(DefaultRepeatPenalty)) :
        p \in StringsUpTo(MaxLen),
        n \in IntInputs(MinTokens, MaxTokens, DefaultMaxTokens),
        t \in {NaN} \cup { Flt(x) : x \in IntInputs(MinTemperature, MaxTemperature,
                                                     DefaultTemperature) } }

\* Every prompt, with default parameters: bodies of the route and requests of
\* direct callers.
BodiesText == { Body(p, Absent, Absent, Absent, Absent) : p \in Prompts }

RequestsText ==
    { GenerationRequest(p, DefaultMaxTokens, Flt(DefaultTemperature), Flt(DefaultTopP),
                        Flt(DefaultRepeatPenalty)) : p \in StringsUpTo(MaxLen) }

ExitCodes == 0 .. MaxExit
OutputsWide == StringsUpTo(MaxLen)
OutputsSmall == { << >>, << "a", "a" >> }
OutputsNone == { << >> }

\* What the child wrote to stderr.
ErrorsSmall == { << >> }
ErrorsWide == { << >>, << "a" >>, << BadByte >> }

----------------------------------------------------------------------------
(* Initial state: the module-level model_manager after construction *)

InitFrom(fs) ==
    /\ disk = fs
    /\ startup = find_paths(disk).exc
    /\ llama_path = find_paths(disk).llama_path
    /\ model_path = find_paths(disk).model_path
    /\ is_initialized = find_paths(disk).is_initialized
    /\ model_lock = 0
    /\ pc = [t \in Threads |-> "idle"]
    /\ via = [t \in Threads |-> "none"]
    /\ data = [t \in Threads |-> NoBody]
    /\ arg = [t \in Threads |-> NoRequest]
    /\ gen_request = [t \in Threads |-> NoRequest]
    /\ command = [t \in Threads |-> NoCommand]
    /\ child = [t \in Threads |-> "none"]
    /\ process = [t \in Threads |-> NoProcess]
    /\ age = [t \in Threads |-> 0]
    /\ elapsed = [t \in Threads |-> 0]
    /\ took_lock = [t \in Threads |-> FALSE]
    /\ response = [t \in Threads |-> NoResponse]
    /\ http = [t \in Threads |-> NoHttp]

Init == \E fs \in Snapshots : InitFrom(fs)

\* The manager never changes after construction, nor does the model look at
\* the filesystem again.
manager == << disk, startup, llama_path, model_path, is_initialized >>
call == << via, data, arg, gen_request >>

----------------------------------------------------------------------------
(* generate_text, up to the call of generate() *)

\* What the route does with a body: exc is the exception that leaves the
\* route function ("none" when it goes on to call generate with req).
RouteUntilCall(ready, body) ==
    IF ~ready
    THEN \* outside the try block
         [exc |-> ErrorReply(503, "Model not initialized").exc, req |-> NoRequest]
    ELSE LET built == BuildRequest(body)
             \* the exception raised inside the try block
             inner == IF body.prompt.k = "absent"
                        THEN ErrorReply(400, "Missing required field: prompt").exc
                      ELSE IF built.exc # "none" THEN built.exc
                      ELSE IF built.req.prompt = << >>
                        THEN ErrorReply(400, "Prompt cannot be empty").exc
                      ELSE "none"
             \* the except clause that catches it raises in turn
             outer == IF inner = "none" THEN "none"
                      ELSE IF inner = "ValueError"
                        THEN ErrorReply(400, "Invalid parameter value").exc
                      ELSE ErrorReply(500, "Internal server error").exc
         IN [exc |-> outer, req |-> built.req]

\* What the caller makes of the GenerationResponse: the route formats the
\* answer, a direct caller has no HTTP answer.
AnswerTo(caller, resp) == IF caller = "http" THEN FormatResponse(resp) ELSE NoHttp

\* An entry of generate(request) without the is_initialized test.
EnterGenerateUnguarded(t, req) ==
    /\ arg' = [arg EXCEPT ![t] = req]
    /\ gen_request' = [gen_request EXCEPT ![t] = req]
    /\ elapsed' = [elapsed EXCEPT ![t] = 0]
    /\ pc' = [pc EXCEPT ![t] = "waiting"]
    /\ UNCHANGED << response, http >>

\* Entry of generate(request) on thread t: the not-initialized return, or
\* start_time is taken and the thread goes on to the with statement.
EnterGenerate(t, req) ==
    /\ arg' = [arg EXCEPT ![t] = req]
    /\ gen_request' = [gen_request EXCEPT ![t] = req]
    /\ elapsed' = [elapsed EXCEPT ![t] = 0]
    /\ IF ~is_initialized
       THEN /\ response' = [response EXCEPT ![t] = NotInitializedResponse]
            /\ http' = [http EXCEPT ![t] = AnswerTo(via'[t], NotInitializedResponse)]
            /\ pc' = [pc EXCEPT ![t] = "done"]
       ELSE /\ pc' = [pc EXCEPT ![t] = "waiting"]
            /\ UNCHANGED << response, http >>

\* POST /generate arrives on thread t with a JSON body data of bodies.
Receive(t, bodies) ==
    /\ pc[t] = "idle"
    /\ via' = [via EXCEPT ![t] = "http"]
    /\ \E body \in bodies :
         LET r == RouteUntilCall(is_initialized, body)
         IN /\ data' = [data EXCEPT ![t] = body]
            /\ IF r.exc # "none"
               THEN /\ http' = [http EXCEPT ![t] = internal_error]
                    /\ pc' = [pc EXCEPT ![t] = "done"]
                    /\ UNCHANGED << arg, gen_request, elapsed, response >>
               ELSE EnterGenerate(t, r.req)
    /\ UNCHANGED << manager, process, model_lock, command, child, age, took_lock >>

\* Another caller (the chat webhook) calls model_manager.generate(req) with a
\* req of requests.
CallGenerate(t, requests) ==
    /\ pc[t] = "idle"
    /\ via' = [via EXCEPT ![t] = "direct"]
    /\ \E req \in requests : EnterGenerate(t, req)
    /\ UNCHANGED << manager, process, model_lock, data, command, child, age, took_lock >>

\* A health route whose status follows the executable alone.
health_check_by_executable(llama, model, init) ==
    [HttpAnswer(IF llama # NoPath THEN 200 ELSE 503, "absent", << >>, NoError, "route")
       EXCEPT !.checks = Checks(IF init THEN "healthy" ELSE "unhealthy",
                                llama # NoPath, model # NoPath, init)]

\* health_check: the answer of GET /health for a manager with these
\* attributes.
health_check(llama, model, init) ==
    [HttpAnswer(IF init THEN 200 ELSE 503, "absent", << >>, NoError, "route")
       EXCEPT !.checks = Checks(IF init THEN "healthy" ELSE "unhealthy",
                                llama # NoPath, model # NoPath, init)]

\* GET /health arrives on thread t.
HealthRequest(t) ==
    /\ pc[t] = "idle"
    /\ via' = [via EXCEPT ![t] = "health"]
    /\ http' = [http EXCEPT ![t] = health_check(llama_path, model_path, is_initialized)]
    /\ pc' = [pc EXCEPT ![t] = "done"]
    /\ UNCHANGED << manager, process, model_lock, data, arg, gen_request, command,
                    child, age, elapsed, took_lock, response >>

----------------------------------------------------------------------------
(* generate(), inside the with block *)

\* with self.model_lock: the thread enters, validates the request and builds
\* the command.
Acquire(t) ==
    /\ pc[t] = "waiting"
    /\ CanAcquire(model_lock)
    /\ model_lock' = t
    /\ took_lock' = [took_lock EXCEPT ![t] = TRUE]
    /\ gen_request' = [gen_request EXCEPT ![t] = Validate(gen_request[t])]
    /\ command' = [command EXCEPT ![t] =
                     BuildCommand(llama_path, model_path, Validate(gen_request[t]))]
    /\ pc' = [pc EXCEPT ![t] = "locked"]
    /\ UNCHANGED << manager, process, via, data, arg, child, age, elapsed, response, http >>

\* subprocess.run starts the child.
Launch(t) ==
    /\ pc[t] = "locked"
    /\ child' = [child EXCEPT ![t] = "running"]
    /\ age' = [age EXCEPT ![t] = 0]
    /\ pc' = [pc EXCEPT ![t] = "running"]
    /\ UNCHANGED << manager, process, model_lock, call, command, elapsed, took_lock,
                    response, http >>

\* generate() returns resp, leaving the with block by outcome, and the
\* caller goes on with the response.
Return(t, resp, outcome) ==
    /\ response' = [response EXCEPT ![t] = resp]
    /\ model_lock' = LockAfterWith(model_lock, outcome)
    /\ http' = [http EXCEPT ![t] = AnswerTo(via[t], resp)]
    /\ age' = [age EXCEPT ![t] = 0]
    /\ pc' = [pc EXCEPT ![t] = "done"]

\* subprocess.run raises before a child runs (the executable was removed, the
\* prompt holds a NUL byte, ...): except Exception.
LaunchFails(t) ==
    /\ pc[t] = "locked"
    /\ Return(t, UnexpectedResponse(elapsed[t]), "exception")
    /\ UNCHANGED << manager, process, call, command, child, elapsed, took_lock >>

\* The child exits by itself within the timeout, with some returncode, a
\* stdout of outputs and a stderr of errors.
ChildExits(t, outputs, errors) ==
    /\ pc[t] = "running"
    /\ age[t] < TimeoutMinutes
    /\ child' = [child EXCEPT ![t] = "exited"]
    /\ \E returncode \in ExitCodes, stdout \in outputs, stderr \in errors :
         LET proc == CompletedProcess(returncode, stdout, stderr)
         IN /\ process' = [process EXCEPT ![t] = proc]
            /\ Return(t, RunResult(gen_request[t].prompt, proc, elapsed[t]),
                      RunOutcome(proc))
    /\ UNCHANGED << manager, call, command, elapsed, took_lock >>

\* The child is still running when the timeout expires: except TimeoutExpired.
Timeout(t) ==
    /\ pc[t] = "running"
    /\ age[t] = TimeoutMinutes
    /\ child' = [child EXCEPT ![t] = ChildAfterTimeout]
    /\ Return(t, TimeoutResponse(elapsed[t]), "timeout")
    /\ UNCHANGED << manager, process, call, command, elapsed, took_lock >>

\* Collecting the child's output raises within the timeout (memory runs out,
\* a pipe fails): subprocess.run kills the child and re-raises; except
\* Exception.
RunRaises(t) ==
    /\ pc[t] = "running"
    /\ age[t] < TimeoutMinutes
    /\ child' = [child EXCEPT ![t] = "killed"]
    /\ Return(t, UnexpectedResponse(elapsed[t]), "exception")
    /\ UNCHANGED << manager, process, call, command, elapsed, took_lock >>

\* The thread is free for the next request.
Reset(t) ==
    /\ pc[t] = "done"
    /\ pc' = [pc EXCEPT ![t] = "idle"]
    /\ via' = [via EXCEPT ![t] = "none"]
    /\ data' = [data EXCEPT ![t] = NoBody]
    /\ arg' = [arg EXCEPT ![t] = NoRequest]
    /\ gen_request' = [gen_request EXCEPT ![t] = NoRequest]
    /\ command' = [command EXCEPT ![t] = NoCommand]
    /\ child' = [child EXCEPT ![t] = "none"]
    /\ process' = [process EXCEPT ![t] = NoProcess]
    /\ age' = [age EXCEPT ![t] = 0]
    /\ elapsed' = [elapsed EXCEPT ![t] = 0]
    /\ took_lock' = [took_lock EXCEPT ![t] = FALSE]
    /\ response' = [response EXCEPT ![t] = NoResponse]
    /\ http' = [http EXCEPT ![t] = NoHttp]
    /\ UNCHANGED << manager, model_lock >>

\* A minute passes: running children age, and the clock of every thread
\* inside generate() advances.  A child at the timeout is dealt with first.
\* Taking a free lock, and the statements between the with statement and
\* subprocess.run, take no time on this scale: minutes pass for a thread only
\* while it is blocked on a held lock or while its child runs.
InGenerate(t) == pc[t] \in {"waiting", "locked", "running"}

Tick ==
    /\ \E t \in Threads : InGenerate(t)
    /\ \A t \in Threads : pc[t] = "running" => age[t] < TimeoutMinutes
    /\ \A t \in Threads : pc[t] # "locked"
    /\ \A t \in Threads : pc[t] = "waiting" => ~CanAcquire(model_lock)
    /\ age' = [t \in Threads |-> IF pc[t] = "running" THEN age[t] + 1 ELSE age[t]]
    /\ elapsed' = [t \in Threads |->
                     IF InGenerate(t) /\ elapsed[t] < MaxElapsed
                     THEN elapsed[t] + 1 ELSE elapsed[t]]
    /\ UNCHANGED << manager, process, model_lock, pc, call, command, child, took_lock,
                    response, http >>

----------------------------------------------------------------------------
(* Specifications *)

\* The steps of thread t inside the with block of generate().
InsideStep(t, outputs, errors) ==
    \/ Launch(t)
    \/ LaunchFails(t)
    \/ ChildExits(t, outputs, errors)
    \/ Timeout(t)
    \/ RunRaises(t)

\* The steps of generate() on thread t once it is entered.
GenerateStep(t, outputs, errors) == Acquire(t) \/ InsideStep(t, outputs, errors)

\* Concurrent request threads serving POST /generate.
Next ==
    \/ Tick
    \/ \E t \in Threads :
          \/ Receive(t, BodiesSmall)
          \/ GenerateStep(t, OutputsSmall, ErrorsSmall)
          \/ Reset(t)

Spec == Init /\ [][Next]_vars

\* One thread, every combination of parameters, through the route or by a
\* direct call.
NextSeq ==
    \/ Tick
    \/ Receive(1, BodiesWide)
    \/ CallGenerate(1, RequestsWide)
    \/ GenerateStep(1, OutputsSmall, ErrorsSmall)
    \/ Reset(1)

SpecSeq == Init /\ [][NextSeq]_vars

\* One thread, every prompt and every output of the child.
NextText ==
    \/ Tick
    \/ Receive(1, BodiesText)
    \/ CallGenerate(1, RequestsText)
    \/ GenerateStep(1, OutputsWide, ErrorsSmall)
    \/ Reset(1)

SpecText == Init /\ [][NextText]_vars

\* Concurrent request threads whose children also write to stderr.
NextErr ==
    \/ Tick
    \/ \E t \in Threads :
          \/ Receive(t, BodiesSmall)
          \/ GenerateStep(t, OutputsSmall, ErrorsWide)
          \/ Reset(t)

SpecErr == Init /\ [][NextErr]_vars

\* Construction from every snapshot of the candidate files (each executable
\* candidate missing, present, or present and executable; each model
\* candidate missing, at the threshold, or above it; MODEL_PATH unset or set),
\* then GET /health.
InitPaths ==
    \E present \in SUBSET Files :
      \E executable \in SUBSET (present \cap LlamaFiles),
         large \in SUBSET (present \cap ModelFiles),
         env \in {"", EnvPath} :
        InitFrom(Snapshot(present, executable, large, env))

NextPaths == HealthRequest(1) \/ Reset(1)

SpecPaths == InitPaths /\ [][NextPaths]_vars

\* The concurrent request threads with children that write nothing: which
\* caller gets the lock does not depend on what a child prints.
NextFair ==
    \/ Tick
    \/ \E t \in Threads :
          \/ Receive(t, BodiesSmall)
          \/ GenerateStep(t, OutputsNone, ErrorsSmall)
          \/ Reset(t)

\* The thread inside the with block keeps going: it starts the child, and a
\* running child exits or is cut off by the timeout.  When the lock is free
\* and callers are blocked on it, one of them proceeds; threading.Lock does
\* not say which.
FairSpec ==
    /\ Init
    /\ [][NextFair]_vars
    /\ WF_vars(\E t \in Threads : InsideStep(t, OutputsNone, ErrorsSmall))
    /\ WF_vars(\E t \in Threads : Acquire(t))

----------------------------------------------------------------------------
(* Properties *)

Returned(t) == pc[t] = "done" /\ response[t] # NoResponse
Answered(t) == pc[t] = "done" /\ via[t] = "http"
HoldsLock(t) == pc[t] \in {"locked", "running"}

\* C1: at most one external process invocation is executing at any instant,
\* whatever the number of callers and their interleaving.
C1_OneInvocationAtATime ==
    \A t, u \in Threads :
        (child[t] = "running" /\ child[u] = "running") \/ (pc[t] = "running" /\ pc[u] = "running")
            => t = u

\* A child runs while another caller is blocked on the lock.
C1_Witness ==
    \E t, u \in Threads : t # u /\ child[t] = "running" /\ pc[u] = "waiting"

\* C2: a call of generate that has returned no longer holds model_lock, on
\* every exit path, and the lock is free whenever no call is inside the with
\* block.
C2_LockReleased ==
    /\ \A t \in Threads : model_lock = t => HoldsLock(t)
    /\ (\A t \in Threads : ~HoldsLock(t)) => model_lock = 0

\* A call that entered the with block has returned through an exception
\* handler.
C2_Witness ==
    \E t \in Threads :
        /\ Returned(t) /\ took_lock[t]
        /\ response[t].error.msg \in {"Generation timeout exceeded (3 minutes)",
                                      "Unexpected error"}
        /\ model_lock = 0

\* C3: a child never runs past the timeout; when it has not exited within the
\* timeout the call returns the timeout error and the child is over; and a
\* returned timeout result has success=false with the child no longer running.
C3_TimeoutKillsChild ==
    /\ [](\A t \in Threads :
            /\ child[t] = "running" => (pc[t] = "running" /\ age[t] <= TimeoutMinutes)
            /\ (Returned(t) /\ response[t].error.msg = TimeoutResponse(0).error.msg)
                 => (~response[t].success /\ child[t] = "killed"))
    /\ [][\A t \in Threads :
            (pc[t] = "running" /\ age[t] = TimeoutMinutes /\ pc'[t] # "running")
                => /\ response'[t] = TimeoutResponse(elapsed[t])
                   /\ child'[t] # "running"]_vars

\* A call has returned the timeout result.
C3_Witness ==
    \E t \in Threads :
        /\ Returned(t) /\ child[t] = "killed"
        /\ response[t].error.msg = TimeoutResponse(0).error.msg

\* C4 as claimed: every caller blocked on the lock is eventually granted it
\* and receives a GenerationResponse.
C4_EveryWaiterServed ==
    \A t \in Threads : (pc[t] = "waiting") ~> Returned(t)

\* C4 as amended: whenever a caller is blocked on the lock some caller is
\* eventually granted it, and every caller that was granted the lock
\* eventually receives a GenerationResponse.
C4_SomeWaiterServed ==
    /\ (\E t \in Threads : pc[t] = "waiting") ~> (\E u \in Threads : pc[u] = "locked")
    /\ \A t \in Threads : HoldsLock(t) ~> Returned(t)

\* A caller is blocked while another has just been granted the lock.
C4_Witness ==
    \E t, u \in Threads : pc[t] = "waiting" /\ pc[u] = "locked" /\ model_lock = u

\* What the claims mean by the body of a request.
PromptMissingOrBlank(body) == body.prompt.k = "absent" \/ Strip(body.prompt.s) = << >>
MalformedInt(field) == field.k \in {"text", "null", "nan"}
MalformedFloat(field) == field.k \in {"text", "null"}
MalformedParameter(body) ==
    \/ MalformedInt(body.max_tokens)
    \/ MalformedFloat(body.temperature)
    \/ MalformedFloat(body.top_p)
    \/ MalformedFloat(body.repeat_penalty)
ValidBody(body) == ~PromptMissingOrBlank(body) /\ ~MalformedParameter(body)

\* C5: on a ready manager, a request whose prompt is missing or empty after
\* trimming is answered 400 and launches no process.
C5_EmptyPrompt400 ==
    \A t \in Threads :
        (Answered(t) /\ is_initialized /\ PromptMissingOrBlank(data[t]))
            => (http[t].status = 400 /\ child[t] = "none")

\* C6: when the manager is not ready every request is answered 503 and
\* launches no process.
C6_NotReady503 ==
    \A t \in Threads :
        (Answered(t) /\ ~is_initialized) => (http[t].status = 503 /\ child[t] = "none")

\* C7: on a ready manager, a request with a prompt and a malformed numeric
\* field is answered 400, launches no process and never takes the lock.
C7_BadParameter400 ==
    \A t \in Threads :
        (Answered(t) /\ is_initialized /\ ~PromptMissingOrBlank(data[t])
                     /\ MalformedParameter(data[t]))
            => (http[t].status = 400 /\ child[t] = "none" /\ ~took_lock[t])

\* C8: for a valid request on a ready manager the route itself answers, with
\* 200, success=true and the text exactly when generate succeeded, and with
\* 500, success=false and the error otherwise.
C8_StatusFollowsSuccess ==
    \A t \in Threads :
        (Answered(t) /\ is_initialized /\ ValidBody(data[t]))
            => /\ Returned(t)
               /\ http[t].by = "route"
               /\ http[t].status = 200 <=> response[t].success
               /\ response[t].success
                    => (http[t].success = "true" /\ http[t].text = response[t].text)
               /\ ~response[t].success
                    => /\ http[t].status = 500
                       /\ http[t].success = "false"
                       /\ http[t].error = response[t].error

\* A valid request was answered 500 by the route after a failed generation.
C8_Witness ==
    \E t \in Threads :
        /\ Answered(t) /\ ValidBody(data[t]) /\ Returned(t)
        /\ http[t].status = 500 /\ http[t].by = "route"
        /\ response[t].error.msg = "Model generated empty response"

\* Saturation of x into lo..hi.
Saturate(x, lo, hi) == IF x < lo THEN lo ELSE IF x > hi THEN hi ELSE x

InInterval(f, lo, hi) == ~f.nan /\ lo <= f.v /\ f.v <= hi
SaturatedFlt(out, in, lo, hi) == ~in.nan => out = Flt(Saturate(in.v, lo, hi))

\* C9: the parameter values in the command lie in the documented intervals;
\* a value below the floor is the floor, a value above the ceiling is the
\* ceiling, a value in range is unchanged.
C9_ParametersClamped ==
    \A t \in Threads :
        took_lock[t] =>
            /\ MinTokens <= command[t].n /\ command[t].n <= MaxTokens
            /\ command[t].n = Saturate(arg[t].max_tokens, MinTokens, MaxTokens)
            /\ InInterval(command[t].temp, MinTemperature, MaxTemperature)
            /\ SaturatedFlt(command[t].temp, arg[t].temperature,
                            MinTemperature, MaxTemperature)
            /\ InInterval(command[t].top_p, MinTopP, MaxTopP)
            /\ SaturatedFlt(command[t].top_p, arg[t].top_p, MinTopP, MaxTopP)
            /\ InInterval(command[t].repeat_penalty, MinRepeatPenalty, MaxRepeatPenalty)
            /\ SaturatedFlt(command[t].repeat_penalty, arg[t].repeat_penalty,
                            MinRepeatPenalty, MaxRepeatPenalty)

\* The documented scenario: temperature 5.0 is run as 2.0, next to a token
\* count below its floor.
C9_Witness ==
    \E t \in Threads :
        /\ child[t] = "running"
        /\ arg[t].temperature = Flt(ExampleTemperature)
        /\ command[t].temp = Flt(MaxTemperature)
        /\ arg[t].max_tokens < MinTokens

\* C10: in every GenerationResponse, success=false implies an empty text, and
\* error is set exactly when success=false.
C10_ResponseShape ==
    \A t \in Threads :
        Returned(t) =>
            /\ ~response[t].success => response[t].text = << >>
            /\ response[t].error # NoError <=> ~response[t].success

\* A run that ended with a non-zero status has been classified.
C10_Witness ==
    \E t \in Threads :
        /\ Returned(t)
        /\ child[t] = "exited"
        /\ response[t].error.msg = "Model execution failed with code"

----------------------------------------------------------------------------
(* C11: the health route *)

Ready == llama_path # NoPath /\ model_path # NoPath
HealthAnswered(t) == pc[t] = "done" /\ via[t] = "health"
NothingPresent == disk.exists \cap (LlamaFiles \cup ModelFiles) = {}

\* C11: GET /health answers 200 exactly when the manager is ready and 503
\* otherwise, ready meaning that both the executable path and the model path
\* are set; when neither an executable nor a model is present the answer is
\* 503 with both the llama_executable and the model_file check false.
C11_HealthStatus ==
    /\ is_initialized <=> Ready
    /\ \A t \in Threads :
         HealthAnswered(t) =>
           /\ http[t].by = "route"
           /\ http[t].status \in {200, 503}
           /\ http[t].status = 200 <=> Ready
           /\ http[t].checks.llama_executable <=> llama_path # NoPath
           /\ http[t].checks.model_file <=> model_path # NoPath
           /\ NothingPresent =>
                /\ http[t].status = 503
                /\ ~http[t].checks.llama_executable
                /\ ~http[t].checks.model_file

C11_Witness ==
    \E t \in Threads :
      /\ HealthAnswered(t)
      /\ NothingPresent
      /\ http[t].status = 503
      /\ ~http[t].checks.llama_executable /\ ~http[t].checks.model_file

----------------------------------------------------------------------------
(* C12: failures of a request *)

\* C12: no failure of a request escapes as an unhandled fault: a generate()
\* call that raised inside returns success=false with an error, and every
\* POST /generate request, the not-ready, missing-prompt and invalid-parameter
\* ones included, ends in a JSON answer built by the route function itself,
\* never in an exception that leaves the route.
C12_RouteAnswersItself ==
    \A t \in Threads :
        /\ Returned(t) /\ child[t] \in {"none", "killed"} =>
             ~response[t].success /\ response[t].error # NoError
        /\ Answered(t) =>
             http[t].by = "route" /\ http[t].success \in {"true", "false"}

----------------------------------------------------------------------------
(* C13: echo suppression *)

IsPrefix(p, str) == Len(p) <= Len(str) /\ SubSeq(str, 1, Len(p)) = p
DropPrefix(p, str) == SubSeq(str, Len(p) + 1, Len(str))

\* subprocess.run returned a CompletedProcess to thread t.
Completed(t) ==
    Returned(t) /\ child[t] = "exited" /\ RunOutcome(process[t]) = "return"

\* A child that exited with status 0 and whose output has been cleaned.
Cleaned(t) == Completed(t) /\ process[t].returncode = 0

\* C13: when the prompt is a prefix of the trimmed output, exactly that
\* leading occurrence is removed and the rest is trimmed; when the prompt
\* occurs in the trimmed output only at a non-leading position, the output is
\* left unchanged.
C13_OnlyLeadingEchoRemoved ==
    \A t \in Threads :
        Cleaned(t) =>
            LET output == Strip(process[t].stdout)
                prompt == gen_request[t].prompt
            IN IF IsPrefix(prompt, output)
               THEN response[t].text = Strip(DropPrefix(prompt, output))
               ELSE response[t].text = output

----------------------------------------------------------------------------
(* C14: classification of a finished run *)

\* The number of maximal runs of non-whitespace characters of str.
WordsIn(str) ==
    Cardinality({ i \in 1 .. Len(str) :
                    ~IsSpace(str[i]) /\ (i = 1 \/ IsSpace(str[i - 1])) })

----------------------------------------------------------------------------
(* C15: generate() on a manager that is not initialized *)

\* C15: when the manager is not initialized, generate() returns success=false
\* with the not-initialized error, starts no process and neither acquires
\* model_lock nor waits for it, whatever the state of the lock.
C15_NotInitializedShortCircuit ==
    \A t \in Threads :
        ~is_initialized =>
            /\ pc[t] \in {"idle", "done"}
            /\ child[t] = "none"
            /\ ~took_lock[t]
            /\ model_lock # t
            /\ Returned(t) =>
                 /\ ~response[t].success
                 /\ response[t].error = Error("Model not initialized", 0)

C15_Witness ==
    \E t \in Threads :
        /\ ~is_initialized
        /\ Returned(t)
        /\ via[t] = "direct"
        /\ response[t].error = Error("Model not initialized", 0)
        /\ ~took_lock[t]

----------------------------------------------------------------------------
(* C16: path resolution *)

\* The first member of candidates that is in good, NoPath if there is none.
FirstIn(candidates, good) ==
    IF \E i \in 1 .. Len(candidates) : candidates[i] \in good
    THEN LET i == CHOOSE i \in 1 .. Len(candidates) :
                     /\ candidates[i] \in good
                     /\ \A j \in 1 .. (i - 1) : candidates[j] \notin good
         IN candidates[i]
    ELSE NoPath

\* The files that exist and are executable; those that exist with a size
\* strictly above 1 MiB.
Executables == { path \in disk.exists : path \in disk.exec }
LargeModels == { path \in disk.exists : disk.size[path] > 1048576 }

\* C16: for every snapshot of the filesystem, construction selects as
\* executable the first candidate that exists and is executable, and as model
\* the first candidate that exists with a size strictly above 1 MiB; a path is
\* left unset when no candidate qualifies, and resolution raises nothing, also
\* when candidates are missing.
C16_PathResolution ==
    /\ startup = "none"
    /\ llama_path = FirstIn(possible_llama_paths, Executables)
    /\ model_path = FirstIn(possible_model_paths(disk.env), LargeModels)

\* Earlier candidates are passed over (one missing, one present but not
\* executable, one model of exactly 1 MiB) and later ones are selected.
C16_Witness ==
    /\ possible_llama_paths[1] \notin disk.exists
    /\ possible_llama_paths[2] \in disk.exists
    /\ llama_path = possible_llama_paths[3]
    /\ "/app/models/model.gguf" \in disk.exists
    /\ disk.size["/app/models/model.gguf"] = 1048576
    /\ "./models/model.gguf" \notin disk.exists
    /\ model_path = EnvPath

----------------------------------------------------------------------------
(* C17: generation_time *)

\* The minutes between the launch of the child and the construction of the
\* result, as far as the model's clock counts.
SinceLaunch(t) == IF age[t] < MaxElapsed THEN age[t] ELSE MaxElapsed

\* C17: generation_time is the time from just before the launch of the child
\* to the construction of the result, so the time the caller spent before it,
\* waiting for model_lock behind other requests, is not part of it; every
\* outcome carries it, the not-initialized return included.
C17_TimedFromLaunch ==
    [][\A t \in Threads :
         /\ pc[t] = "running" /\ pc'[t] = "done" =>
              response'[t].generation_time = SinceLaunch(t)
         /\ pc[t] = "locked" /\ pc'[t] = "done" =>
              response'[t].generation_time = 0
         /\ pc[t] = "idle" /\ Returned(t)' =>
              response'[t].generation_time = 0]_vars

----------------------------------------------------------------------------
(* C18: the child's stderr *)

\* Two calls that got the same request, the same exit status, the same stdout
\* and took the same time.
SameRunButStderr(t, u) ==
    /\ Returned(t) /\ child[t] = "exited"
    /\ Returned(u) /\ child[u] = "exited"
    /\ via[t] = via[u]
    /\ arg[t] = arg[u]
    /\ process[t].returncode = process[u].returncode
    /\ process[t].stdout = process[u].stdout
    /\ elapsed[t] = elapsed[u]

\* C18: the child's stderr never influences what the caller receives: two
\* runs that differ only in what the child wrote to stderr end in the same
\* GenerationResponse and the same HTTP answer.
C18_StderrNotObservable ==
    \A t, u \in Threads :
        SameRunButStderr(t, u) => response[t] = response[u] /\ http[t] = http[u]

====
